---- MODULE Spec2Model ----
(***************************************************************************)
(* Template transclusion of wikiparse (Transcluder.transform and its       *)
(* _transclude_* handlers, MediaWiki.fetch_template / transclude).         *)
(*                                                                         *)
(* The interpreter is modelled as a stack machine: one frame per active    *)
(* coroutine call (transform or a handler), one action per code step.      *)
(* Python strings are sequences of one-character strings, so that strip()  *)
(* and render() are computed, not assumed.  Composite AST nodes are heap   *)
(* objects (identity matters: transform rewrites .children in place);      *)
(* lists are values, because the code never mutates a list it was given.   *)
(***************************************************************************)
EXTENDS Integers, Sequences, FiniteSets, TLC

VARIABLES
  status,     \* "running" | "done" | "failed" : the top-level transclude() call
  stack,      \* the chain of suspended coroutine frames, innermost last
  ret,        \* value returned by the frame that just completed, or NoRet
  heap,       \* node id -> [name, children]: the AST node objects
  templates,  \* MediaWiki.templates: names of the memoized template pages
  doc,        \* input: the document passed to transclude()
  vars0,      \* input: the variable table passed to transclude()
  out,        \* the value transclude() returned, or NoRet
  log,        \* history: boundary calls (fetch_template/page_exists/invoke) in order
  calls,      \* history: completed template calls [name, vars, result]
  pieces      \* history: what each top-level element's expansion returned

vars == <<status, stack, ret, heap, templates, doc, vars0, out, log, calls, pieces>>

(***************************************************************************)
(* Bounds                                                                  *)
(***************************************************************************)
MaxDocLen == 2      \* longest input document (number of top-level elements)
MaxFairDocLen == 1  \* longest input document under FairSpec
MaxDepth == 3       \* deepest nesting of template-body expansions explored

(***************************************************************************)
(* Python values                                                           *)
(***************************************************************************)
Str(s)   == [t |-> "str", s |-> s]          \* a raw str (invoke output)
Text(s)  == [t |-> "text", s |-> s]         \* TextNode: opaque leaf
Ref(id)  == [t |-> "ref", id |-> id]        \* reference to a composite node object
List(xs) == [t |-> "list", xs |-> xs]       \* list / tuple
None     == [t |-> "none"]
Unit(v)  == [t |-> "unit", ast |-> v]       \* class unit
NoRet    == [t |-> "noret"]

\* dict()
EmptyVars == [k \in {} |-> None]

(***************************************************************************)
(* str.strip()                                                             *)
(***************************************************************************)
RECURSIVE LStrip(_)
LStrip(s) == IF s # <<>> /\ Head(s) = " " THEN LStrip(Tail(s)) ELSE s

RECURSIVE RStrip(_)
RStrip(s) ==
  IF s # <<>> /\ s[Len(s)] = " " THEN RStrip(SubSeq(s, 1, Len(s) - 1)) ELSE s

Strip(s) == RStrip(LStrip(s))

(***************************************************************************)
(* Renderer: AST -> str.  Text renders to its content, a raw str to        *)
(* itself, a list to the concatenation of its elements, any composite node *)
(* to the concatenation of its children.                                   *)
(***************************************************************************)
RECURSIVE RenderWith(_, _)
RenderWith(h, v) ==
  CASE v.t = "str"  -> v.s
    [] v.t = "text" -> v.s
    [] v.t = "list" ->
         IF v.xs = <<>> THEN <<>>
         ELSE RenderWith(h, Head(v.xs)) \o RenderWith(h, List(Tail(v.xs)))
    [] v.t = "ref"  -> RenderWith(h, h[v.id].children)
    [] OTHER        -> <<>>

\* TranscluderAPI.render
Render(v) == RenderWith(heap, v)

\* TranscluderAPI.renderid: both implementations return self.render(ast)
RenderId(v) == Render(v)

(***************************************************************************)
(* The wiki the model runs against: template pages and the node objects of *)
(* their parsed bodies, plus the node objects documents are built from.    *)
(* Names and texts are strings over a small alphabet.                      *)
(***************************************************************************)
Node(name, kids) == [name |-> name, children |-> List(kids)]

TextList(s) == List(<<Text(s)>>)

\* TemplateNode(name, posargs, namedargs)
TemplateNode(nm, pos, named) ==
  Node("template", <<TextList(nm), List(pos), List(named)>>)

\* VariableNode(name, default); default is a list or None
VariableNode(nameList, default) == Node("variable", <<nameList, default>>)

PosArgNode(valueList) == Node("posarg", <<valueList>>)

NamedArgNode(keyList, valueList) == Node("namedarg", <<keyList, valueList>>)

SwitchBranchNode(cmpList, valList) == Node("switchbranch", <<cmpList, valList>>)

One == <<"1">>

DefaultKey == <<"#", "d", "e", "f", "a", "u", "l", "t">>

\* Node objects of the template bodies (ids 1..10)
TplHeap ==
     1 :> VariableNode(TextList(One), None)                          \* v: {{{1}}}
  @@ 2 :> Node("b", <<Ref(3)>>)                                      \* p: <b>{{{1}}}</b>
  @@ 3 :> VariableNode(TextList(One), None)
  @@ 4 :> VariableNode(TextList(One), TextList(<<"d">>))             \* i: {{{1|d}}}
  @@ 5 :> TemplateNode(<<"i">>, <<>>, <<>>)                          \* o: {{i}}{{{1}}}
  @@ 6 :> VariableNode(TextList(One), None)
  @@ 7 :> TemplateNode(<<"v">>, <<Ref(8)>>, <<>>)                    \* w: {{v|{{{1}}}}}
  @@ 8 :> PosArgNode(List(<<Ref(9)>>))
  @@ 9 :> VariableNode(TextList(One), None)
  @@ 10 :> TemplateNode(<<"r">>, <<>>, <<>>)                         \* r: {{r}}

\* The parsed body of each template page of the wiki
TplBody ==
     <<"f">> :> List(<<Text(<<"x">>)>>)
  @@ <<"v">> :> List(<<Ref(1)>>)
  @@ <<"p">> :> List(<<Ref(2)>>)
  @@ <<"i">> :> List(<<Ref(4)>>)
  @@ <<"o">> :> List(<<Ref(5), Ref(6)>>)
  @@ <<"w">> :> List(<<Ref(7)>>)
  @@ <<"r">> :> List(<<Ref(10)>>)

\* Node objects of the documents (ids 20..)
DocHeap ==
     21 :> TemplateNode(<<"v">>, <<Ref(22)>>, <<>>)                  \* {{v|a}}
  @@ 22 :> PosArgNode(TextList(<<"a">>))
  @@ 23 :> TemplateNode(<<"p">>, <<Ref(24)>>, <<>>)                  \* {{p|a}}
  @@ 24 :> PosArgNode(TextList(<<"a">>))
  @@ 25 :> TemplateNode(<<"p">>, <<Ref(26)>>, <<>>)                  \* {{p|b}}
  @@ 26 :> PosArgNode(TextList(<<"b">>))
  @@ 27 :> TemplateNode(<<"o">>, <<Ref(28)>>, <<>>)                  \* {{o|a}}
  @@ 28 :> PosArgNode(TextList(<<"a">>))
  @@ 31 :> TemplateNode(<<"w">>, <<Ref(32)>>, <<Ref(33)>>)           \* {{w|a|1=b}}
  @@ 32 :> PosArgNode(TextList(<<"a">>))
  @@ 33 :> NamedArgNode(TextList(<<" ", "1">>), TextList(<<"b">>))
  @@ 34 :> TemplateNode(<<"q">>, <<>>, <<>>)                         \* {{q}}: no such page
  @@ 36 :> VariableNode(TextList(<<"k">>), List(<<Ref(37)>>))        \* {{{k|{{f}}}}}
  @@ 37 :> TemplateNode(<<"f">>, <<>>, <<>>)
  @@ 38 :> VariableNode(List(<<Ref(39)>>), None)                     \* {{{ {{{1}}} }}}
  @@ 39 :> VariableNode(TextList(One), None)
  @@ 40 :> Node("if", <<List(<<Ref(41)>>), TextList(<<"a">>),        \* {{#if:{{{1}}}|a|{{f}}}}
                        List(<<Ref(42)>>)>>)
  @@ 41 :> VariableNode(TextList(One), TextList(<<" ">>))
  @@ 42 :> TemplateNode(<<"f">>, <<>>, <<>>)
  @@ 43 :> Node("ifeq", <<TextList(<<"a", " ">>), List(<<Ref(44)>>), \* {{#ifeq:a |{{{1}}}|a|b}}
                          TextList(<<"a">>), TextList(<<"b">>)>>)
  @@ 44 :> VariableNode(TextList(One), None)
  @@ 45 :> Node("ifexist", <<TextList(<<" ", "a", " ">>),            \* {{#ifexist: a |a|b}}
                             TextList(<<"a">>), TextList(<<"b">>)>>)
  @@ 46 :> Node("switch", <<List(<<Ref(47)>>),                       \* {{#switch:{{{1}}}|a=1|
                            List(<<Ref(48), Ref(49), Ref(50),        \*   #default=2|a=3|
                                   Ref(51)>>)>>)                     \*   #default=4}}
  @@ 47 :> VariableNode(TextList(One), None)
  @@ 48 :> SwitchBranchNode(TextList(<<"a">>), TextList(<<"1">>))
  @@ 49 :> SwitchBranchNode(TextList(DefaultKey), TextList(<<"2">>))
  @@ 50 :> SwitchBranchNode(TextList(<<" ", "a">>), TextList(<<"3">>))
  @@ 51 :> SwitchBranchNode(TextList(DefaultKey), TextList(<<"4">>))
  @@ 52 :> Node("switch", <<List(<<Ref(53)>>), List(<<Ref(54)>>)>>)  \* {{#switch:{{{1}}}|a=1}}
  @@ 53 :> VariableNode(TextList(One), None)
  @@ 54 :> SwitchBranchNode(TextList(<<"a">>), TextList(<<"1">>))
  @@ 55 :> Node("invoke", <<TextList(<<"m", " ">>), TextList(<<"g">>), \* {{#invoke:m |g|a}}
                            List(<<Ref(56)>>), List(<<>>)>>)
  @@ 56 :> PosArgNode(TextList(<<"a">>))
  @@ 57 :> Node("b", <<Ref(58)>>)                                    \* <b>{{f}}</b>
  @@ 58 :> TemplateNode(<<"f">>, <<>>, <<>>)
  @@ 59 :> TemplateNode(<<"r">>, <<>>, <<>>)                         \* {{r}}
  @@ 60 :> Node("b", <<Text(<<"a">>)>>)                              \* <b>a</b>

Heap0 == TplHeap @@ DocHeap

\* The elements a document is made of
Roots ==
  {Text(<<"a">>)} \cup
  {Ref(id) : id \in {21, 23, 25, 27, 31, 34, 36, 38, 40, 43, 45, 46, 52, 55,
                     57, 59, 60}}

\* Documents: a parser never puts one node object at two places
Docs(maxLen) ==
  {d \in UNION {[1..n -> Roots] : n \in 1..maxLen} :
     \A i, j \in DOMAIN d : (i # j /\ d[i].t = "ref") => d[i] # d[j]}

\* Variable tables a caller passes to transclude()
VarTables ==
  { EmptyVars,
    (One :> TextList(<<"a">>)) @@ (<<"a">> :> TextList(<<"b">>)) }

\* Texts the boundary's invoke may return
InvokeTexts == { <<>>, <<"z">> }

(***************************************************************************)
(* Helpers of the repository the transcluder calls                         *)
(***************************************************************************)
\* utils.iterable: a list is returned as it is, None as the empty sequence
Iterable(v) == IF v.t = "list" THEN v ELSE List(<<>>)

\* the names for which Transcluder has a _transclude_<name> method
Handlers == {"template", "variable", "if", "ifeq", "ifexist", "switch", "invoke"}

Digits == <<"1", "2", "3", "4", "5", "6", "7", "8", "9">>

\* str(ordinal) of a positional argument
Ordinal(j) == <<Digits[j]>>

RECURSIVE BindNamed(_, _, _)
BindNamed(h, tbl, named) ==
  IF named = <<>> THEN tbl
  ELSE LET kv  == h[Head(named).id].children.xs
           key == Strip(RenderWith(h, kv[1]))
       IN BindNamed(h, (key :> kv[2]) @@ tbl, Tail(named))

\* transformer.make_vars: positional arguments keyed "1", "2", ..., then named
\* arguments keyed by their rendered, trimmed key; a later argument overwrites
MakeVarsWith(h, posargs, namedargs) ==
  LET pos == [k \in {Ordinal(j) : j \in 1..Len(posargs.xs)} |->
                LET j == CHOOSE j \in 1..Len(posargs.xs) : Ordinal(j) = k
                IN h[posargs.xs[j].id].children.xs[1]]
  IN BindNamed(h, pos, namedargs.xs)

\* Transcluder.make_vars
MakeVars(posargs, namedargs) == MakeVarsWith(heap, posargs, namedargs)

\* transclude_inclusion: the inclusion filter leaves a tree without
\* inclusion tags as it is (the wiki above has none)
TranscludeInclusion(v) == v

\* mutant: the first branch with a key wins
RECURSIVE SwitchMapFirstWins(_, _, _)
SwitchMapFirstWins(h, res, branches) ==
  IF branches = <<>> THEN res
  ELSE LET cv == h[Head(branches).id].children.xs
       IN SwitchMapFirstWins(h, res @@ (Strip(RenderWith(h, cv[1])) :> cv[2]),
                             Tail(branches))

RECURSIVE SwitchMapWith(_, _, _)
SwitchMapWith(h, res, branches) ==
  IF branches = <<>> THEN res
  ELSE LET cv == h[Head(branches).id].children.xs
       IN SwitchMapWith(h, (Strip(RenderWith(h, cv[1])) :> cv[2]) @@ res,
                        Tail(branches))

\* Transcluder.make_switch_map: res[render(cmp).strip()] = val, in branch order
MakeSwitchMap(branches) == SwitchMapWith(heap, EmptyVars, branches.xs)

\* the tree a value denotes in heap h (a snapshot, for the histories)
RECURSIVE Deref(_, _)
Deref(h, v) ==
  CASE v.t = "ref"  -> [t |-> "node", name |-> h[v.id].name,
                        children |-> Deref(h, h[v.id].children)]
    [] v.t = "list" -> List([k \in 1..Len(v.xs) |-> Deref(h, v.xs[k])])
    [] OTHER        -> v

DerefVars(h, tbl) == [k \in DOMAIN tbl |-> Deref(h, tbl[k])]

(***************************************************************************)
(* Frames                                                                  *)
(***************************************************************************)
Frame(fn, ast, vs) ==
  [fn |-> fn, pc |-> "start", ast |-> ast, vars |-> vs,
   result |-> <<>>, i |-> 0, kids |-> None, name |-> <<>>]

Top == stack[Len(stack)]

Running == status = "running" /\ stack # <<>>

SetTop(f) == [stack EXCEPT ![Len(stack)] = f]

Pop == SubSeq(stack, 1, Len(stack) - 1)

\* the innermost frame returns v to its caller
Return(v) == stack' = Pop /\ ret' = v

\* number of template bodies being expanded
BodyDepth == Cardinality({k \in DOMAIN stack : stack[k].fn = "template" /\ stack[k].pc = "body"})

\* mutant: the loop walks the sequence from its end
LoopIndexReversed(f) == Len(f.ast.xs) - f.i + 1

\* line 41, for node in ast: the index of the element taken at step i
LoopIndex(f) == f.i

\* where a frame stands: the index of the element a loop is at, the phase of a
\* handler (1 expanding its children, 3 expanding the fetched body)
FramePos(f) ==
  CASE f.pc \in {"loop", "collect"} -> LoopIndex(f)
    [] f.pc = "body"                -> 3
    [] OTHER                        -> 1

\* the position of a boundary call made by the innermost frame (phase 2)
CallPath == [k \in 1..Len(stack) |-> IF k = Len(stack) THEN 2 ELSE FramePos(stack[k])]

LogEntry(op, arg, ok) == [op |-> op, arg |-> arg, path |-> CallPath, ok |-> ok]

\* mutant: the handler catches the failure and yields nothing for the node
RaiseSwallowed ==
  /\ ret' = Unit(List(<<>>))
  /\ stack' = SubSeq(stack, 1, Len(stack) - 1)
  /\ UNCHANGED <<status, heap, doc, vars0, out, calls, pieces>>

\* an exception leaves every frame: no handler catches it
Raise ==
  /\ status' = "failed"
  /\ stack' = <<>>
  /\ ret' = NoRet
  /\ UNCHANGED <<heap, doc, vars0, out, calls, pieces>>

(***************************************************************************)
(* Init: MediaWiki.transclude(doc, vars0) has called transform             *)
(***************************************************************************)
InitWith(maxLen) ==
  /\ doc \in {List(d) : d \in Docs(maxLen)}
  /\ vars0 \in VarTables
  /\ status = "running"
  /\ stack = <<Frame("transform", doc, vars0)>>
  /\ ret = NoRet
  /\ heap = Heap0
  /\ templates = {}
  /\ out = NoRet
  /\ log = <<>>
  /\ calls = <<>>
  /\ pieces = <<>>

Init == InitWith(MaxDocLen)

\* the documents of the specification the liveness property is checked under
InitFair == InitWith(MaxFairDocLen)

(***************************************************************************)
(* Transcluder.transform                                                   *)
(***************************************************************************)
\* lines 39-40: a list (never a str): start the loop
TransformList ==
  /\ Running /\ ret = NoRet
  /\ Top.fn = "transform" /\ Top.pc = "start" /\ Top.ast.t = "list"
  /\ stack' = SetTop([Top EXCEPT !.pc = "loop", !.i = 1, !.result = <<>>])
  /\ UNCHANGED <<status, ret, heap, templates, doc, vars0, out, log, calls, pieces>>

\* lines 41-42: await self.transform(node, vars, page) for the next element
TransformLoop ==
  /\ Running /\ ret = NoRet
  /\ Top.fn = "transform" /\ Top.pc = "loop" /\ Top.i <= Len(Top.ast.xs)
  /\ stack' = Append(SetTop([Top EXCEPT !.pc = "collect"]),
                     Frame("transform", Top.ast.xs[LoopIndex(Top)], Top.vars))
  /\ UNCHANGED <<status, ret, heap, templates, doc, vars0, out, log, calls, pieces>>

\* lines 43-46: a unit is flattened into the result, anything else appended
Collect(result, transcluded) ==
  IF transcluded.t = "unit" THEN result \o transcluded.ast.xs
  ELSE Append(result, transcluded)

TransformCollect ==
  /\ Running /\ ret # NoRet
  /\ Top.fn = "transform" /\ Top.pc = "collect"
  /\ stack' = SetTop([Top EXCEPT !.pc = "loop", !.i = Top.i + 1,
                                 !.result = Collect(Top.result, ret)])
  /\ ret' = NoRet
  /\ pieces' = IF Len(stack) = 1 THEN (LoopIndex(Top) :> ret) @@ pieces ELSE pieces
  /\ UNCHANGED <<status, heap, templates, doc, vars0, out, log, calls>>

\* line 47: return result
TransformReturnList ==
  /\ Running /\ ret = NoRet
  /\ Top.fn = "transform" /\ Top.pc = "loop" /\ Top.i > Len(Top.ast.xs)
  /\ Return(List(Top.result))
  /\ UNCHANGED <<status, heap, templates, doc, vars0, out, log, calls, pieces>>

\* lines 49-52: a node with a handler: return await self._transclude_<name>(...)
\* (the awaiting transform frame only passes the handler's value on, so the
\* handler frame takes its place)
TransformDispatch ==
  /\ Running /\ ret = NoRet
  /\ Top.fn = "transform" /\ Top.pc = "start" /\ Top.ast.t = "ref"
  /\ heap[Top.ast.id].name \in Handlers
  /\ stack' = SetTop(Frame(heap[Top.ast.id].name, Top.ast, Top.vars))
  /\ UNCHANGED <<status, ret, heap, templates, doc, vars0, out, log, calls, pieces>>

\* line 54, the call: a node without handler has its children expanded
TransformPassThrough ==
  /\ Running /\ ret = NoRet
  /\ Top.fn = "transform" /\ Top.pc = "start" /\ Top.ast.t = "ref"
  /\ heap[Top.ast.id].name \notin Handlers
  /\ stack' = Append(SetTop([Top EXCEPT !.pc = "assign"]),
                     Frame("transform", heap[Top.ast.id].children, Top.vars))
  /\ UNCHANGED <<status, ret, heap, templates, doc, vars0, out, log, calls, pieces>>

\* what ast.children = <expanded children> leaves in the heap
AssignChildren(h, id, expanded) == [h EXCEPT ![id].children = expanded]

\* lines 54-55: ast.children = ...; return ast  (the node object itself)
TransformAssign ==
  /\ Running /\ ret # NoRet
  /\ Top.fn = "transform" /\ Top.pc = "assign"
  /\ heap' = AssignChildren(heap, Top.ast.id, ret)
  /\ Return(Top.ast)
  /\ UNCHANGED <<status, templates, doc, vars0, out, log, calls, pieces>>

\* lines 57-58: anything else (TextNode content, str, None) is returned as it is
TransformLeaf ==
  /\ Running /\ ret = NoRet
  /\ Top.fn = "transform" /\ Top.pc = "start" /\ Top.ast.t \notin {"list", "ref"}
  /\ Return(Top.ast)
  /\ UNCHANGED <<status, heap, templates, doc, vars0, out, log, calls, pieces>>

(***************************************************************************)
(* The handlers.  Each but _transclude_variable first awaits               *)
(* self.transform(node.children, vars, page).                              *)
(***************************************************************************)
ExpandChildren(fn) ==
  /\ Running /\ ret = NoRet
  /\ Top.fn = fn /\ Top.pc = "start"
  /\ stack' = Append(SetTop([Top EXCEPT !.pc = "kids"]),
                     Frame("transform", heap[Top.ast.id].children, Top.vars))
  /\ UNCHANGED <<status, ret, heap, templates, doc, vars0, out, log, calls, pieces>>

\* the handler's children have been expanded
Expanded(fn) ==
  /\ Running /\ ret # NoRet
  /\ Top.fn = fn /\ Top.pc = "kids"

\* line 61
TemplateArgs == ExpandChildren("template")

\* MediaWiki.fetch_template: a memoized page is returned without a request
Cached(name) == name \in templates

\* mutant: the callee's table is merged into the caller's instead of replacing it
TemplateVarsInherited(callerVars, posargs, namedargs) ==
  MakeVars(posargs, namedargs) @@ callerVars

\* the table a template body is expanded under (line 71)
TemplateVars(callerVars, posargs, namedargs) == MakeVars(posargs, namedargs)

\* mutant: the call node itself is handed to self.transform again
BodyToExpandSelf(name, tpl) == List(<<tpl>>)

\* lines 70, 72: the tree handed to self.transform is the fetched page's body
BodyToExpand(name, tpl) == TplBody[name]

\* lines 61-72, up to the call that expands the body: the name is rendered, the
\* page fetched (memoized by MediaWiki.fetch_template), parsed, the new
\* variable table built and the body expanded under it
TemplateFetch ==
  /\ Expanded("template")
  /\ BodyDepth < MaxDepth
  /\ LET name == RenderId(ret.xs[1])
         vs   == TemplateVars(Top.vars, ret.xs[2], ret.xs[3])
     IN /\ name \in DOMAIN TplBody
        /\ templates' = templates \cup {name}
        /\ log' = Append(log, LogEntry("fetch_template", name, TRUE))
        /\ stack' = Append(SetTop([Top EXCEPT !.pc = "body", !.kids = ret,
                                              !.name = name, !.vars = vs]),
                           Frame("transform", BodyToExpand(name, Top.ast), vs))
  /\ ret' = NoRet
  /\ UNCHANGED <<status, heap, doc, vars0, out, calls, pieces>>

\* line 69 raises: the page does not exist, or the request for a page that is
\* not memoized fails
TemplateFetchFail ==
  /\ Expanded("template")
  /\ BodyDepth < MaxDepth
  /\ LET name == RenderId(ret.xs[1])
     IN /\ ~Cached(name)
        /\ log' = Append(log, LogEntry("fetch_template", name, FALSE))
  /\ Raise
  /\ UNCHANGED templates

\* the interpreter's recursion limit: RecursionError
TemplateOverflow ==
  /\ Expanded("template")
  /\ BodyDepth >= MaxDepth
  /\ Raise
  /\ UNCHANGED <<templates, log>>

\* line 72: return unit(iterable(await transclude_inclusion(<expanded body>, page)))
TemplateReturn ==
  /\ Running /\ ret # NoRet
  /\ Top.fn = "template" /\ Top.pc = "body"
  /\ Return(Unit(Iterable(TranscludeInclusion(ret))))
  /\ calls' = Append(calls, [name |-> Top.name, vars |-> DerefVars(heap, Top.vars),
                             result |-> Deref(heap, ret)])
  /\ UNCHANGED <<status, heap, templates, doc, vars0, out, log, pieces>>

\* lines 75-77: the children are NOT expanded; the name is rendered as it stands
VariableSplice(node, vs) ==
  LET name    == RenderId(node.children.xs[1])
      default == node.children.xs[2]
  IN Unit(Iterable(IF name \in DOMAIN vs THEN vs[name] ELSE default))

TranscludeVariable ==
  /\ Running /\ ret = NoRet
  /\ Top.fn = "variable" /\ Top.pc = "start"
  /\ Return(VariableSplice(heap[Top.ast.id], Top.vars))
  /\ UNCHANGED <<status, heap, templates, doc, vars0, out, log, calls, pieces>>

\* line 80
IfArgs == ExpandChildren("if")

\* lines 80-84
IfResult(kids) ==
  IF Strip(Render(kids.xs[1])) # <<>> THEN Unit(kids.xs[2]) ELSE Unit(kids.xs[3])

TranscludeIf ==
  /\ Expanded("if")
  /\ Return(IfResult(ret))
  /\ UNCHANGED <<status, heap, templates, doc, vars0, out, log, calls, pieces>>

\* line 87
IfEqArgs == ExpandChildren("ifeq")

\* lines 87-93
IfEqResult(kids) ==
  IF Strip(Render(kids.xs[1])) = Strip(Render(kids.xs[2]))
  THEN Unit(kids.xs[3]) ELSE Unit(kids.xs[4])

TranscludeIfEq ==
  /\ Expanded("ifeq")
  /\ Return(IfEqResult(ret))
  /\ UNCHANGED <<status, heap, templates, doc, vars0, out, log, calls, pieces>>

\* line 96
IfExistArgs == ExpandChildren("ifexist")

\* line 97: the argument of page_exists is self.api.render(file), as rendered
IfExistTarget(file) == Render(file)

\* lines 98-100
IfExistResult(kids, exists) == IF exists THEN Unit(kids.xs[2]) ELSE Unit(kids.xs[3])

\* lines 96-100: page_exists answers
TranscludeIfExist ==
  /\ Expanded("ifexist")
  /\ \E exists \in BOOLEAN :
       /\ log' = Append(log, LogEntry("page_exists", IfExistTarget(ret.xs[1]), TRUE)
                             @@ [answer |-> exists])
       /\ Return(IfExistResult(ret, exists))
  /\ UNCHANGED <<status, heap, templates, doc, vars0, out, calls, pieces>>

\* line 97 raises (MediaWikiTranscluderAPI.page_exists always does: it passes
\* self twice to fetch_template and catches only FileNotFoundError)
IfExistFail ==
  /\ Expanded("ifexist")
  /\ log' = Append(log, LogEntry("page_exists", IfExistTarget(ret.xs[1]), FALSE))
  /\ Raise
  /\ UNCHANGED templates

\* line 103
SwitchArgs == ExpandChildren("switch")

\* lines 103-111
SwitchResult(kids) ==
  LET val      == Strip(Render(kids.xs[1]))
      branches == MakeSwitchMap(kids.xs[2])
  IN IF val \in DOMAIN branches THEN Unit(branches[val])
     ELSE IF DefaultKey \in DOMAIN branches THEN Unit(branches[DefaultKey])
     ELSE Unit(List(<<>>))

TranscludeSwitch ==
  /\ Expanded("switch")
  /\ Return(SwitchResult(ret))
  /\ UNCHANGED <<status, heap, templates, doc, vars0, out, log, calls, pieces>>

\* line 114
InvokeArgs == ExpandChildren("invoke")

\* lines 115-117: the arguments of api.invoke
InvokeCall(kids) ==
  [mod  |-> Strip(RenderId(kids.xs[1])),
   fn   |-> Strip(RenderId(kids.xs[2])),
   vars |-> DerefVars(heap, MakeVars(kids.xs[3], kids.xs[4]))]

\* mutant: the text is wrapped like every other handler's result, and a str,
\* being iterable, is flattened into the sequence character by character
InvokeResultSpliced(text) ==
  Unit(List([k \in 1..Len(text) |-> Str(<<text[k]>>)]))

\* line 118: the str api.invoke returned is returned as it is, not as a unit
InvokeResult(text) == Str(text)

\* lines 114-118: invoke answers with some text
TranscludeInvoke ==
  /\ Expanded("invoke")
  /\ \E text \in InvokeTexts :
       /\ log' = Append(log, LogEntry("invoke", InvokeCall(ret), TRUE)
                             @@ [answer |-> text])
       /\ Return(InvokeResult(text))
  /\ UNCHANGED <<status, heap, templates, doc, vars0, out, calls, pieces>>

\* line 118 raises (MediaWikiTranscluderAPI.invoke always does)
InvokeFail ==
  /\ Expanded("invoke")
  /\ log' = Append(log, LogEntry("invoke", InvokeCall(ret), FALSE))
  /\ Raise
  /\ UNCHANGED templates

(***************************************************************************)
(* MediaWiki.transclude returns what transform returned                    *)
(***************************************************************************)
Complete ==
  /\ status = "running" /\ stack = <<>> /\ ret # NoRet
  /\ status' = "done"
  /\ out' = ret
  /\ ret' = NoRet
  /\ UNCHANGED <<stack, heap, templates, doc, vars0, log, calls, pieces>>

Next ==
  \/ TransformList
  \/ TransformLoop
  \/ TransformCollect
  \/ TransformReturnList
  \/ TransformDispatch
  \/ TransformPassThrough
  \/ TransformAssign
  \/ TransformLeaf
  \/ TemplateArgs
  \/ TemplateFetch
  \/ TemplateFetchFail
  \/ TemplateOverflow
  \/ TemplateReturn
  \/ TranscludeVariable
  \/ IfArgs
  \/ TranscludeIf
  \/ IfEqArgs
  \/ TranscludeIfEq
  \/ IfExistArgs
  \/ TranscludeIfExist
  \/ IfExistFail
  \/ SwitchArgs
  \/ TranscludeSwitch
  \/ InvokeArgs
  \/ TranscludeInvoke
  \/ InvokeFail
  \/ Complete

Spec == Init /\ [][Next]_vars

\* the event loop resumes a coroutine that can run
FairSpec == InitFair /\ [][Next]_vars /\ WF_vars(Next)

(***************************************************************************)
(* Properties                                                              *)
(***************************************************************************)
MacroNames == {"template", "variable", "if", "ifeq", "ifexist", "switch", "invoke"}

\* no macro node at any depth of v
RECURSIVE MacroFree(_, _)
MacroFree(h, v) ==
  CASE v.t = "list" -> \A k \in 1..Len(v.xs) : MacroFree(h, v.xs[k])
    [] v.t = "ref"  -> h[v.id].name \notin MacroNames /\ MacroFree(h, h[v.id].children)
    [] v.t = "unit" -> MacroFree(h, v.ast)
    [] OTHER        -> TRUE

Max(S) == CHOOSE x \in S : \A y \in S : y <= x

\* C1: when transform completes, its result holds no macro node at any depth,
\* also inside content substituted from a Variable's default or from the table.
C1_NoMacroRemains == status = "done" => MacroFree(heap, out)

\* the template calls whose body is being expanded around frame k
EnclosingCalls(k) ==
  {j \in 1..(k - 1) : stack[j].fn = "template" /\ stack[j].pc = "body"}

\* the table built from the arguments of the innermost enclosing template call,
\* or the caller's table outside every template body
ScopeTable(k) ==
  IF EnclosingCalls(k) = {} THEN vars0
  ELSE LET call == stack[Max(EnclosingCalls(k))]
       IN MakeVars(call.kids.xs[2], call.kids.xs[3])

\* C2: every Variable reference is resolved against the table built from the
\* arguments of the template call whose body it stands in, and against the
\* caller's own table outside of it (so also after a template call returned).
C2_ScopeIsolation ==
  \A k \in DOMAIN stack :
    stack[k].fn = "variable" => stack[k].vars = ScopeTable(k)

\* C2 witness: in o = {{i}}{{{1}}} called with 1=a, i's body saw no key "1" and
\* used its default, and the Variable following the call to i sees 1 again.
C2_Witness ==
  /\ Running /\ Top.fn = "variable" /\ Top.ast = Ref(6)
  /\ One \in DOMAIN Top.vars
  /\ \E k \in DOMAIN calls :
       /\ calls[k].name = <<"i">>
       /\ calls[k].vars = EmptyVars
       /\ calls[k].result = TextList(<<"d">>)

\* lexicographic order of positions
PathLess(p, q) ==
  \E j \in 1..(IF Len(p) < Len(q) THEN Len(p) ELSE Len(q)) :
    /\ p[j] < q[j]
    /\ \A m \in 1..(j - 1) : p[m] = q[m]

\* what one element's expansion contributes to the sequence
Flat(v) == IF v.t = "unit" THEN v.ast.xs ELSE <<v>>

RECURSIVE ConcatPieces(_)
ConcatPieces(n) == IF n = 0 THEN <<>> ELSE ConcatPieces(n - 1) \o Flat(pieces[n])

\* C3: elements are expanded left to right, one after the other: the boundary
\* calls occur in depth-first document order, the elements complete in input
\* order, the output is the concatenation of the per-element results in input
\* order, and a sequence without macro nodes is returned element for element.
C3_DocumentOrder ==
  /\ \A k \in 1..(Len(log) - 1) : PathLess(log[k].path, log[k + 1].path)
  /\ DOMAIN pieces = 1..Cardinality(DOMAIN pieces)
  /\ status = "done" =>
       /\ out = List(ConcatPieces(Len(doc.xs)))
       /\ MacroFree(Heap0, doc) => out = doc

\* C3 witness: a two-element document completed whose first element made a
\* nested fetch (o fetches i) before the second element's fetch.
C3_Witness ==
  /\ status = "done" /\ Len(doc.xs) = 2 /\ Len(log) = 3
  /\ log[1].path[1] = 1 /\ log[2].path[1] = 1 /\ Len(log[2].path) > Len(log[1].path)
  /\ log[3].path[1] = 2

RECURSIVE ClaimedSplice(_, _)
RECURSIVE ExpandedName(_, _)

\* the name expression of a Variable, expanded: a Variable inside it is
\* replaced by its own splice
ExpandedName(xs, vs) ==
  IF xs = <<>> THEN <<>>
  ELSE LET x == Head(xs)
       IN (IF x.t = "ref" /\ heap[x.id].name = "variable"
           THEN ClaimedSplice(heap[x.id], vs).ast.xs
           ELSE <<x>>) \o ExpandedName(Tail(xs), vs)

ClaimedSplice(node, vs) ==
  LET name    == RenderId(List(ExpandedName(node.children.xs[1].xs, vs)))
      default == node.children.xs[2]
  IN IF name \in DOMAIN vs THEN Unit(vs[name])
     ELSE IF default = None THEN Unit(List(<<>>))
     ELSE Unit(default)

\* C4: a Variable node is replaced by a splice: its name expression is expanded
\* and normalized; the value bound to that key is spliced in as it is, else the
\* node's default, else (no default) the empty sequence.
C4_VariableSplice ==
  [][TranscludeVariable => ret' = ClaimedSplice(heap[Top.ast.id], Top.vars)]_vars

\* the result of the last branch matching the discriminant, else of the last
\* "#default" branch, else the empty sequence
ClaimedSwitch(kids) ==
  LET val    == Strip(Render(kids.xs[1]))
      bs     == kids.xs[2].xs
      Cmp(j) == Strip(Render(heap[bs[j].id].children.xs[1]))
      Res(j) == heap[bs[j].id].children.xs[2]
      M      == {j \in 1..Len(bs) : Cmp(j) = val}
      D      == {j \in 1..Len(bs) : Cmp(j) = DefaultKey}
  IN IF M # {} THEN Unit(Res(Max(M)))
     ELSE IF D # {} THEN Unit(Res(Max(D)))
     ELSE Unit(List(<<>>))

\* C5: a Switch expands to the result of the last branch whose rendered, trimmed
\* match value equals the rendered, trimmed discriminant, else to that of the
\* last "#default" branch, else to the empty sequence.
C5_SwitchLastMatch == [][TranscludeSwitch => ret' = ClaimedSwitch(ret)]_vars

\* C5 witness: {{#switch:a|a=1|#default=2| a=3|#default=4}} has just returned
\* the result of its second matching branch.
C5_Witness ==
  /\ Running /\ Len(stack) = 1 /\ Top.pc = "collect"
  /\ Top.ast.xs[Top.i] = Ref(46)
  /\ ret = Unit(TextList(<<"3">>))

\* C6: an IfExist makes exactly one existence check, with the rendered target
\* trimmed of surrounding whitespace, and splices the true branch iff the check
\* answers true.
C6_IfExistTrimmed ==
  [][Expanded("ifexist") =>
       /\ Len(log') = Len(log) + 1
       /\ log'[Len(log')].op = "page_exists"
       /\ log'[Len(log')].arg = Strip(Render(ret.xs[1]))
       /\ status' = "running" =>
            ret' = IF log'[Len(log')].answer THEN Unit(ret.xs[2]) ELSE Unit(ret.xs[3])
    ]_vars

IsInvoke(v) == v.t = "ref" /\ Heap0[v.id].name = "invoke"

\* the text api.invoke returned for the top-level element i
AnswerAt(i) ==
  LET k == CHOOSE k \in DOMAIN log : log[k].op = "invoke" /\ log[k].path = <<i, 2>>
  IN log[k].answer

\* C7: each Invoke node contributes exactly one element to the output, the text
\* the boundary returned, also when that text is empty.
C7_InvokeSingleton ==
  status = "done" =>
    /\ out = List(ConcatPieces(Len(doc.xs)))
    /\ \A i \in 1..Len(doc.xs) :
         IsInvoke(doc.xs[i]) => Flat(pieces[i]) = <<Str(AnswerAt(i))>>

\* C7 witness: the boundary answered the empty text, the output is [""].
C7_Witness ==
  /\ status = "done" /\ doc = List(<<Ref(55)>>)
  /\ out = List(<<Str(<<>>)>>)

\* C8: a failing boundary call ends the whole transform with that failure: it is
\* the last boundary call made (no retry, no further call), and no result,
\* partial or not, is returned.
C8_FailureAborts ==
  /\ \A k \in DOMAIN log : ~log[k].ok => (k = Len(log) /\ status = "failed")
  /\ status = "failed" => (out = NoRet /\ stack = <<>> /\ ret = NoRet)

\* C8 witness: in {{#if:{{{1}}}|a|{{f}}}} with 1 bound the true branch would be
\* taken, the fetch of f in the false branch fails, and the transform fails.
C8_Witness ==
  /\ status = "failed" /\ doc = List(<<Ref(40)>>) /\ One \in DOMAIN vars0
  /\ Len(log) = 1 /\ log[1].op = "fetch_template" /\ ~log[1].ok

(***************************************************************************)
(* The expansion of a never-expanded copy: the same rules applied to the    *)
(* pristine node objects (Heap0), producing trees instead of rewriting      *)
(* nodes.  It covers what the template bodies of the wiki contain: text,    *)
(* nodes without handler, Variable and Template.                            *)
(***************************************************************************)
RECURSIVE RenderTree(_)
RenderTree(v) ==
  CASE v.t = "str"  -> v.s
    [] v.t = "text" -> v.s
    [] v.t = "list" ->
         IF v.xs = <<>> THEN <<>>
         ELSE RenderTree(Head(v.xs)) \o RenderTree(List(Tail(v.xs)))
    [] v.t = "node" -> RenderTree(v.children)
    [] OTHER        -> <<>>

RECURSIVE TreeNamed(_, _)
TreeNamed(tbl, named) ==
  IF named = <<>> THEN tbl
  ELSE LET kv == Head(named).children.xs
       IN TreeNamed((Strip(RenderTree(kv[1])) :> kv[2]) @@ tbl, Tail(named))

TreeVars(posargs, namedargs) ==
  TreeNamed([k \in {Ordinal(j) : j \in 1..Len(posargs.xs)} |->
               LET j == CHOOSE j \in 1..Len(posargs.xs) : Ordinal(j) = k
               IN posargs.xs[j].children.xs[1]],
            namedargs.xs)

RECURSIVE Fresh(_, _)
RECURSIVE FreshSeq(_, _)

Fresh(v, vs) ==
  CASE v.t = "list" -> List(FreshSeq(v.xs, vs))
    [] v.t = "ref" ->
         LET node == Heap0[v.id]
         IN CASE node.name = "variable" ->
                   LET name == RenderTree(Deref(Heap0, node.children.xs[1]))
                   IN Unit(IF name \in DOMAIN vs THEN vs[name]
                           ELSE Iterable(Deref(Heap0, node.children.xs[2])))
              [] node.name = "template" ->
                   LET kids == Fresh(node.children, vs)
                   IN Unit(Fresh(TplBody[RenderTree(kids.xs[1])],
                                 TreeVars(kids.xs[2], kids.xs[3])))
              [] OTHER ->
                   [t |-> "node", name |-> node.name,
                    children |-> Fresh(node.children, vs)]
    [] OTHER -> v

FreshSeq(xs, vs) ==
  IF xs = <<>> THEN <<>>
  ELSE Flat(Fresh(Head(xs), vs)) \o FreshSeq(Tail(xs), vs)

\* C9: with a memoized template body, the result of every call of a template
\* is the result the call's own arguments produce on a fresh, never-expanded
\* copy of the body: no rewrite done by an earlier expansion shows in a later.
C9_NoLeak ==
  \A k \in DOMAIN calls :
    calls[k].result = Fresh(TplBody[calls[k].name], calls[k].vars)

(***************************************************************************)
(* The template-reference graph of the wiki                                *)
(***************************************************************************)
\* the names of the templates called anywhere in v, as parsed
RECURSIVE NamesIn(_)
NamesIn(v) ==
  CASE v.t = "list" -> UNION {NamesIn(v.xs[k]) : k \in 1..Len(v.xs)}
    [] v.t = "ref"  ->
         (IF Heap0[v.id].name = "template"
          THEN {RenderWith(Heap0, Heap0[v.id].children.xs[1])} ELSE {})
         \cup NamesIn(Heap0[v.id].children)
    [] OTHER        -> {}

NumTemplates == Cardinality(DOMAIN TplBody)

\* the length of the longest reference chain starting at template n, cut off
\* after fuel templates
RECURSIVE Chain(_, _)
Chain(n, fuel) ==
  IF fuel = 0 \/ n \notin DOMAIN TplBody THEN 0
  ELSE 1 + Max({0} \cup {Chain(m, fuel - 1) : m \in NamesIn(TplBody[n])})

\* no template the document can reach lies on a cycle
DocAcyclic == \A n \in NamesIn(doc) : Chain(n, NumTemplates + 1) <= NumTemplates

LongestChain == Max({0} \cup {Chain(n, NumTemplates + 1) : n \in NamesIn(doc)})

====
